---------------------------- MODULE Spec2Model ----------------------------
(***************************************************************************)
(* A model of the traffic simulation of traffic_base/model.py (CityModel)   *)
(* and traffic_base/agent.py (Car, Traffic_Light, Road, Obstacle,           *)
(* Destination).                                                            *)
(*                                                                          *)
(* Cells are coordinates <<x, y>>, 0-based as in the grid.  The map is the  *)
(* text of the map file: a sequence of rows, top row first, each a sequence *)
(* of one-character strings.  None is written "None".                       *)
(*                                                                          *)
(* Library behaviour the code relies on (mesa.discrete_space):              *)
(*  - Model.step is wrapped: model.steps is incremented before the body of  *)
(*    CityModel.step runs, so the first tick runs with steps = 1;           *)
(*  - AgentSet.shuffle_do calls step once on every agent of the set, in a   *)
(*    random order, skipping agents removed from the set meanwhile;         *)
(*  - assigning agent.cell removes the agent from the old cell's agent list *)
(*    and appends it to the new cell's list;                                *)
(*  - Cell.agents is a property that returns a COPY of the cell's list, so  *)
(*    cell.agents.remove(x) and cell.agents.append(x) change nothing.       *)
(***************************************************************************)
EXTENDS Integers, Sequences, FiniteSets, TLC

VARIABLES
    lines,           \* the map file's rows (model.py:34)
    dataDictionary,  \* symbol -> period for the light symbols (model.py:24)
    cars_per_spawn,  \* CityModel.cars_per_spawn (model.py:26)
    steps,           \* Model.steps, the tick counter
    lights,          \* CityModel.traffic_lights: sequence of Traffic_Light
    cars,            \* every Car ever created, by creation order
    occ,             \* cell -> set of cars in the cell's agent list
    agents,          \* the cars in model.agents (the active set)
    todo,            \* agents shuffle_do has still to step in this tick
    pc,              \* position in CityModel.step: "idle", "agents", "spawn"
    tickStart,       \* history: each car's cell and next path cell when the tick began
    lightsStart,     \* history: the traffic lights when the tick began
    spawned          \* history: the tick and the cell in which each car was created

vars == <<lines, dataDictionary, cars_per_spawn, steps, lights, cars, occ,
          agents, todo, pc, tickStart, lightsStart, spawned>>

None == "None"

\* None where a cell is expected
NoCell == <<>>

-----------------------------------------------------------------------------
(* The grid and the static agents built by CityModel.__init__ *)

height == Len(lines)

width == Len(lines[1])

Cells == {<<x, y>> : x \in 0..(width - 1), y \in 0..(height - 1)}

\* lines[r][c] with the file's 0-based indices
Sym(r, c) == lines[r + 1][c + 1]

\* the character at grid cell (c, height - r - 1)
SymAt(cell) == Sym(height - cell[2] - 1, cell[1])

InBounds(x, y) == 0 <= x /\ x < width /\ 0 <= y /\ y < height

RoadSymbolDirection(col) ==
    CASE col = ">" -> "Right"
      [] col = "<" -> "Left"
      [] col = "^" -> "Up"
      [] col = "v" -> "Down"
      [] OTHER -> None

\* the direction of the Road placed under a traffic light at file row r, column c
traffic_light_direction(r, c) ==
    IF c > 0 /\ Sym(r, c - 1) = ">" THEN "Right"
    ELSE IF c < width - 1 /\ Sym(r, c + 1) = "<" THEN "Left"
    ELSE IF r > 0 /\ Sym(r - 1, c) = "v" THEN "Down"
    ELSE IF r < height - 1 /\ Sym(r + 1, c) = "^" THEN "Up"
    ELSE IF c > 0 /\ Sym(r, c - 1) \in {"<", "v", "^"}
        THEN RoadSymbolDirection(Sym(r, c - 1))
    ELSE IF c < width - 1 /\ Sym(r, c + 1) \in {">", "v", "^"}
        THEN RoadSymbolDirection(Sym(r, c + 1))
    ELSE IF r > 0 /\ Sym(r - 1, c) \in {"<", ">", "v"}
        THEN RoadSymbolDirection(Sym(r - 1, c))
    ELSE IF r < height - 1 /\ Sym(r + 1, c) \in {"<", ">", "^"}
        THEN RoadSymbolDirection(Sym(r + 1, c))
    ELSE "Right"

IsLightSymbol(col) == col \in {"S", "s"}

\* Car.get_road_direction: the direction of the cell's Road, or None
get_road_direction(cell) ==
    LET col == SymAt(cell)
    IN IF col \in {"v", "^", ">", "<"} THEN RoadSymbolDirection(col)
       ELSE IF IsLightSymbol(col)
           THEN traffic_light_direction(height - cell[2] - 1, cell[1])
       ELSE None

HasObstacle(cell) == SymAt(cell) = "#"

HasDestination(cell) == SymAt(cell) = "D"

\* the cells in the order the constructor scans the file: rows from the top,
\* columns from the left
ScanOrder ==
    [k \in 1..(width * height) |->
        <<(k - 1) % width, height - 1 - ((k - 1) \div width)>>]

RECURSIVE SelectSeqCells(_, _, _)
SelectSeqCells(s, k, symbols) ==
    IF k > Len(s) THEN <<>>
    ELSE IF SymAt(s[k]) \in symbols
        THEN <<s[k]>> \o SelectSeqCells(s, k + 1, symbols)
        ELSE SelectSeqCells(s, k + 1, symbols)

\* CityModel.destinations: the cells of the Destination agents, in creation order
destinations == SelectSeqCells(ScanOrder, 1, {"D"})

\* CityModel.traffic_lights at construction: all lights start green (True)
InitialLights ==
    LET cs == SelectSeqCells(ScanOrder, 1, {"S", "s"})
    IN [k \in 1..Len(cs) |->
          [cell |-> cs[k], state |-> TRUE,
           timeToChange |-> dataDictionary[SymAt(cs[k])]]]

Delta(direction) ==
    CASE direction = "Up" -> <<0, 1>>
      [] direction = "Down" -> <<0, -1>>
      [] direction = "Left" -> <<-1, 0>>
      [] direction = "Right" -> <<1, 0>>

corners == << <<0, 0>>, <<width - 1, 0>>, <<0, height - 1>>,
              <<width - 1, height - 1>> >>

\* a mutant of IsValidCorner: the cell the road leads to is not looked at
IsValidCorner_AnyRoad(cell) == get_road_direction(cell) # None

IsValidCorner(cell) ==
    LET road_dir == get_road_direction(cell)
    IN /\ road_dir # None
       /\ InBounds(cell[1] + Delta(road_dir)[1], cell[2] + Delta(road_dir)[2])

RECURSIVE CornerScan(_)
CornerScan(k) ==
    IF k > Len(corners) THEN <<>>
    ELSE IF IsValidCorner(corners[k]) THEN <<corners[k]>> \o CornerScan(k + 1)
    ELSE CornerScan(k + 1)

\* CityModel.corner_road_cells
corner_road_cells == CornerScan(1)

spawn_interval == 10

-----------------------------------------------------------------------------
(* Car: occupancy and light queries *)

\* any(isinstance(agent, Car) for agent in cell.agents)
HasCar(o, cell) == o[cell] # {}

\* a mutant of is_cell_blocked: a car that has reached its destination blocks too
is_cell_blocked_AnyCar(o, cs, cell) == HasObstacle(cell) \/ o[cell] # {}

\* a mutant of is_cell_blocked: the cars are looked up where they were when the
\* tick began
is_cell_blocked_AtTickStart(o, cs, cell) ==
    \/ HasObstacle(cell)
    \/ \E k \in 1..Len(tickStart) : tickStart[k].active /\ tickStart[k].cell = cell

\* a mutant of is_cell_blocked: only an Obstacle blocks
is_cell_blocked_ObstacleOnly(o, cs, cell) == HasObstacle(cell)

\* Car.is_cell_blocked: an Obstacle, or a Car that has not reached its destination
is_cell_blocked(o, cs, cell) ==
    \/ HasObstacle(cell)
    \/ \E i \in o[cell] : ~cs[i].reached_destination

LightsAt(tl, cell) == {k \in 1..Len(tl) : tl[k].cell = cell}

\* Car.is_traffic_light_red: <<is_red, timeToChange>>
is_traffic_light_red(tl, cell) ==
    IF \E k \in LightsAt(tl, cell) : tl[k].state = FALSE
    THEN <<TRUE, tl[CHOOSE k \in LightsAt(tl, cell) : tl[k].state = FALSE].timeToChange>>
    ELSE <<FALSE, 0>>

Abs(n) == IF n < 0 THEN -n ELSE n

\* Car.manhattan_distance
manhattan_distance(pos1, pos2) == Abs(pos1[1] - pos2[1]) + Abs(pos1[2] - pos2[2])

Min(a, b) == IF a < b THEN a ELSE b

-----------------------------------------------------------------------------
(* Car.get_pathfinding_neighbors *)

\* a mutant of allowed_directions: every direction may be taken from a road cell
allowed_directions_WithReverse(road_dir) ==
    IF road_dir \in {"Up", "Down", "Left", "Right"}
    THEN {"Up", "Down", "Left", "Right"} ELSE {}

\* road direction -> the exit directions allowed from a cell of that direction
allowed_directions(road_dir) ==
    CASE road_dir = "Up" -> {"Up", "Left", "Right"}
      [] road_dir = "Down" -> {"Down", "Left", "Right"}
      [] road_dir = "Left" -> {"Left", "Up", "Down"}
      [] road_dir = "Right" -> {"Right", "Up", "Down"}
      [] OTHER -> {}

\* a mutant of compatible_roads: a road of any direction may be entered
compatible_roads_Any(move_direction) == {"Up", "Down", "Left", "Right"}

\* movement direction -> the road directions of a neighbour that may be entered
compatible_roads(move_direction) ==
    CASE move_direction = "Up" -> {"Up", "Left", "Right"}
      [] move_direction = "Down" -> {"Down", "Left", "Right"}
      [] move_direction = "Left" -> {"Left", "Up", "Down"}
      [] move_direction = "Right" -> {"Right", "Up", "Down"}
      [] OTHER -> {}

possible_moves == <<"Up", "Down", "Left", "Right">>

\* the body of the loop over possible_moves: whether the move is kept
NeighborAdmitted(cell, move_direction) ==
    LET nx == cell[1] + Delta(move_direction)[1]
        ny == cell[2] + Delta(move_direction)[2]
    IN /\ move_direction \in allowed_directions(get_road_direction(cell))
       /\ InBounds(nx, ny)
       /\ \/ HasDestination(<<nx, ny>>)
          \/ /\ ~HasObstacle(<<nx, ny>>)
             /\ get_road_direction(<<nx, ny>>) # None
             /\ get_road_direction(<<nx, ny>>) \in compatible_roads(move_direction)

RECURSIVE NeighborScan(_, _)
NeighborScan(cell, k) ==
    IF k > Len(possible_moves) THEN <<>>
    ELSE IF NeighborAdmitted(cell, possible_moves[k])
        THEN << << <<cell[1] + Delta(possible_moves[k])[1],
                     cell[2] + Delta(possible_moves[k])[2]>>,
                   possible_moves[k] >> >> \o NeighborScan(cell, k + 1)
        ELSE NeighborScan(cell, k + 1)

\* the list of <<neighbor_cell, move_direction>>, in the order of possible_moves
get_pathfinding_neighbors(cell) ==
    IF get_road_direction(cell) = None THEN <<>> ELSE NeighborScan(cell, 1)

-----------------------------------------------------------------------------
(* Car.a_star_pathfinding *)

max_iterations == 10000

car_penalty == 3

red_light_cap == 5

\* a mutant of red_light_penalty: no cap
red_light_penalty_Uncapped(time_to_change) == time_to_change \div 2

\* min(time_to_change // 2, 5)
red_light_penalty(time_to_change) == Min(time_to_change \div 2, red_light_cap)

\* move_cost of the edge into neighbor_cell
move_cost(o, tl, neighbor_cell) ==
    1 + (IF HasCar(o, neighbor_cell) THEN car_penalty ELSE 0)
      + (IF is_traffic_light_red(tl, neighbor_cell)[1]
         THEN red_light_penalty(is_traffic_light_red(tl, neighbor_cell)[2])
         ELSE 0)

\* a mutant of HeapLess: the queue is ordered by insertion alone
HeapLess_CounterOnly(a, b) == a.counter < b.counter

\* heapq order on (f_score, counter, ...): counter is unique
HeapLess(a, b) == a.f < b.f \/ (a.f = b.f /\ a.counter < b.counter)

heappop(open_set) == CHOOSE e \in open_set : \A d \in open_set \ {e} : HeapLess(e, d)

\* a mutant of Improves: a cell without a recorded score is never pushed
Improves_OnlyLower(g_score, neighbor_cell, tentative_g_score) ==
    neighbor_cell \in DOMAIN g_score /\ tentative_g_score < g_score[neighbor_cell]

\* whether a neighbour's tentative score replaces the recorded one
Improves(g_score, neighbor_cell, tentative_g_score) ==
    neighbor_cell \notin DOMAIN g_score \/ tentative_g_score < g_score[neighbor_cell]

\* the loop "for neighbor_cell, direction in neighbors" from neighbour k on;
\* st = [open_set, visited, g_score, counter, iterations, expanded, path], where
\* expanded lists the cells in the order of "visited.add(current_cell)"
RECURSIVE ExploreNeighbors(_, _, _, _, _, _, _)
ExploreNeighbors(st, neighbors, k, current, goal, o, tl) ==
    IF k > Len(neighbors) THEN st
    ELSE LET neighbor_cell == neighbors[k][1]
             tentative_g_score == st.g_score[current.cell] + move_cost(o, tl, neighbor_cell)
         IN IF neighbor_cell \in st.visited
                THEN ExploreNeighbors(st, neighbors, k + 1, current, goal, o, tl)
            ELSE IF Improves(st.g_score, neighbor_cell, tentative_g_score)
                THEN ExploreNeighbors(
                       [st EXCEPT
                          !.g_score = [c \in DOMAIN st.g_score \cup {neighbor_cell} |->
                                         IF c = neighbor_cell THEN tentative_g_score
                                         ELSE st.g_score[c]],
                          !.counter = st.counter + 1,
                          !.open_set = st.open_set \cup
                              {[f |-> tentative_g_score
                                        + manhattan_distance(neighbor_cell, goal),
                                counter |-> st.counter + 1,
                                cell |-> neighbor_cell,
                                path |-> Append(current.path, neighbor_cell)]}],
                       neighbors, k + 1, current, goal, o, tl)
            ELSE ExploreNeighbors(st, neighbors, k + 1, current, goal, o, tl)

\* a mutant of AlreadyVisited: a popped cell is expanded again
AlreadyVisited_Never(current_cell, visited) == FALSE

\* "if current_cell in visited: continue"
AlreadyVisited(current_cell, visited) == current_cell \in visited

\* the loop "while open_set and iterations < limit"; the result is the final
\* st, its path the value returned
RECURSIVE AStarLoop(_, _, _, _, _)
AStarLoop(st, goal, o, tl, limit) ==
    IF st.open_set = {} \/ ~(st.iterations < limit) THEN [st EXCEPT !.path = <<>>]
    ELSE LET current == heappop(st.open_set)
             popped == [st EXCEPT !.open_set = st.open_set \ {current},
                                  !.iterations = st.iterations + 1]
         IN IF current.cell = goal THEN [popped EXCEPT !.path = current.path]
            ELSE IF AlreadyVisited(current.cell, st.visited)
                THEN AStarLoop(popped, goal, o, tl, limit)
            ELSE AStarLoop(
                   ExploreNeighbors(
                     [popped EXCEPT !.visited = popped.visited \cup {current.cell},
                                    !.expanded = Append(popped.expanded, current.cell)],
                     get_pathfinding_neighbors(current.cell), 1, current, goal, o, tl),
                   goal, o, tl, limit)

\* the search of a_star_pathfinding with its iteration bound as a parameter
a_star_search(start, goal, o, tl, limit) ==
    AStarLoop([open_set |-> {[f |-> 0, counter |-> 0, cell |-> start, path |-> <<start>>]},
               visited |-> {},
               g_score |-> [c \in {start} |-> 0],
               counter |-> 0,
               iterations |-> 0,
               expanded |-> <<>>,
               path |-> <<>>],
              goal, o, tl, limit)

\* the path from start to goal as a sequence of cells, or <<>> when none is found
a_star_pathfinding(start, goal, o, tl) ==
    a_star_search(start, goal, o, tl, max_iterations).path

-----------------------------------------------------------------------------
(* Car: construction, update_path, step *)

\* Car.update_path
update_path(self, o, tl) ==
    [self EXCEPT !.path = a_star_pathfinding(self.cell, self.destination, o, tl),
                 !.path_index = 0]

\* Car.__init__: the new car, its path computed on the grid as it is now
\* (o already holds the car in its cell)
NewCar(cell, destination, o, tl) ==
    update_path([cell |-> cell,
                 destination |-> destination,
                 reached_destination |-> FALSE,
                 last_direction |-> None,
                 path |-> <<>>,
                 path_index |-> 0], o, tl)

InPath(path, cell) == \E k \in 1..Len(path) : path[k] = cell

\* list.index, 0-based
PathIndex(path, cell) ==
    (CHOOSE k \in 1..Len(path) :
        path[k] = cell /\ \A j \in 1..(k - 1) : path[j] # cell) - 1

\* "if self.cell in self.path: self.path_index = self.path.index(self.cell)";
\* the ValueError branch cannot be taken, index being called only on a member
SyncPathIndex(self) ==
    IF InPath(self.path, self.cell)
    THEN [self EXCEPT !.path_index = PathIndex(self.path, self.cell)]
    ELSE self

\* a mutant of get_next_cell_from_path: the cell after the next one, if there is one
get_next_cell_from_path_Skip(self) ==
    IF self.path = <<>> \/ self.path_index >= Len(self.path) THEN NoCell
    ELSE IF self.path_index + 2 < Len(self.path) THEN self.path[self.path_index + 3]
    ELSE IF self.path_index + 1 < Len(self.path) THEN self.path[self.path_index + 2]
    ELSE NoCell

\* Car.get_next_cell_from_path (path_index is 0-based, sequences are 1-based)
get_next_cell_from_path(self) ==
    IF self.path = <<>> \/ self.path_index >= Len(self.path) THEN NoCell
    ELSE IF self.path_index + 1 < Len(self.path) THEN self.path[self.path_index + 2]
    ELSE NoCell

\* the direction computed from dx, dy before a move
MoveDirection(from, to) ==
    IF to[1] - from[1] > 0 THEN "Right"
    ELSE IF to[1] - from[1] < 0 THEN "Left"
    ELSE IF to[2] - from[2] > 0 THEN "Up"
    ELSE IF to[2] - from[2] < 0 THEN "Down"
    ELSE None

replan_interval == 5

\* a mutant of BlockedBranch: the path is recalculated whenever the car is blocked
BlockedBranch_Always(self, next_cell, o, tl, t) == update_path(self, o, tl)

\* the branch of Car.step taken when next_cell is blocked
BlockedBranch(self, next_cell, o, tl, t) ==
    IF HasObstacle(next_cell) THEN update_path(self, o, tl)
    ELSE IF t % replan_interval = 0 THEN update_path(self, o, tl)
    ELSE self

\* a mutant of MoveBranch: path_index is not advanced
MoveBranch_NoIndex(i, self, next_cell, cs, o, ag) ==
    [cars |-> [cs EXCEPT ![i] = [self EXCEPT !.cell = next_cell,
                                             !.last_direction = MoveDirection(self.cell, next_cell)]],
     occ |-> [o EXCEPT ![self.cell] = o[self.cell] \ {i},
                       ![next_cell] = o[next_cell] \cup {i}],
     agents |-> ag]

\* "Move to next cell": cell.agents.remove / append act on a copy; the
\* assignment self.cell = next_cell moves the car between the cells' lists
MoveBranch(i, self, next_cell, cs, o, ag) ==
    [cars |-> [cs EXCEPT ![i] = [self EXCEPT !.cell = next_cell,
                                             !.last_direction = MoveDirection(self.cell, next_cell),
                                             !.path_index = self.path_index + 1]],
     occ |-> [o EXCEPT ![self.cell] = o[self.cell] \ {i},
                       ![next_cell] = o[next_cell] \cup {i}],
     agents |-> ag]

\* "Check if already at destination": reached_destination is set and the car
\* leaves model.agents; self.cell.agents.remove(self) removes it from a copy of
\* the cell's list, so the cell's own list keeps the car
ArriveBranch(i, self, cs, o, ag) ==
    [cars |-> [cs EXCEPT ![i] = [self EXCEPT !.reached_destination = TRUE]],
     occ |-> o,
     agents |-> ag \ {i}]

\* a mutant of StoppedByRedLight: the red light is not looked at
StoppedByRedLight_Never(self, next_cell, tl) == FALSE

\* whether the red-light check of Car.step stops the car before next_cell
StoppedByRedLight(self, next_cell, tl) ==
    next_cell # self.destination /\ is_traffic_light_red(tl, next_cell)[1]

\* Car.step from "Update path index to match current position" on
FollowPath(i, self, cs, o, ag, tl, t) ==
    LET synced == SyncPathIndex(self)
        next_cell == get_next_cell_from_path(synced)
        stay == [cars |-> [cs EXCEPT ![i] = synced], occ |-> o, agents |-> ag]
    IN IF next_cell = NoCell THEN stay
       ELSE IF StoppedByRedLight(synced, next_cell, tl) THEN stay
       ELSE IF is_cell_blocked(o, cs, next_cell)
           THEN [cars |-> [cs EXCEPT ![i] = BlockedBranch(synced, next_cell, o, tl, t)],
                 occ |-> o, agents |-> ag]
       ELSE MoveBranch(i, synced, next_cell, cs, o, ag)

\* a mutant of NoPathBranch: a car without a path leaves the model
NoPathBranch_Remove(i, self, cs, o, ag) ==
    [cars |-> [cs EXCEPT ![i] = self], occ |-> o, agents |-> ag \ {i}]

\* "No path found, stay in place": Car.step returns
NoPathBranch(i, self, cs, o, ag) ==
    [cars |-> [cs EXCEPT ![i] = self], occ |-> o, agents |-> ag]

\* Car.step of car i: the new cars, occ and agents
car_step(i, cs, o, ag, tl, t) ==
    IF cs[i].cell = cs[i].destination THEN ArriveBranch(i, cs[i], cs, o, ag)
    ELSE LET planned == IF cs[i].path = <<>> THEN update_path(cs[i], o, tl) ELSE cs[i]
         IN IF planned.path = <<>> THEN NoPathBranch(i, planned, cs, o, ag)
            ELSE FollowPath(i, planned, cs, o, ag, tl, t)

\* a mutant of light_step: a light toggles only when an even number of agents
\* is still to be stepped in the tick
light_step_OrderSensitive(light, t) ==
    IF t > 0 /\ t % light.timeToChange = 0 /\ Cardinality(todo) % 2 = 0
    THEN [light EXCEPT !.state = ~light.state]
    ELSE light

\* a mutant of light_step: a light that is red stays red
light_step_OnlyToRed(light, t) ==
    IF t > 0 /\ t % light.timeToChange = 0
    THEN [light EXCEPT !.state = FALSE]
    ELSE light

\* a mutant of light_step: the period is ignored
light_step_EveryTick(light, t) ==
    IF t > 0 THEN [light EXCEPT !.state = ~light.state] ELSE light

\* Traffic_Light.step
light_step(light, t) ==
    IF t > 0 /\ t % light.timeToChange = 0
    THEN [light EXCEPT !.state = ~light.state]
    ELSE light

-----------------------------------------------------------------------------
(* CityModel.step: the spawn cycle *)

distance_threshold == 5

\* a mutant of DestinationChoices: every destination may be chosen
DestinationChoices_Any(starting_cell) == {destinations[k] : k \in 1..Len(destinations)}

\* available_destinations, or every destination when none is far enough
DestinationChoices(starting_cell) ==
    LET available_destinations ==
          {d \in {destinations[k] : k \in 1..Len(destinations)} :
              manhattan_distance(d, starting_cell) > distance_threshold}
    IN IF available_destinations # {} THEN available_destinations
       ELSE {destinations[k] : k \in 1..Len(destinations)}

\* corner_road_cells[i % len(corner_road_cells)]
StartingCell(i) == corner_road_cells[(i % Len(corner_road_cells)) + 1]

\* a mutant of cell_has_car: the entry cell is taken to be free
cell_has_car_Never(o, starting_cell) == FALSE

\* any(isinstance(agent, Car) for agent in starting_cell.agents)
cell_has_car(o, starting_cell) == HasCar(o, starting_cell)

\* the loop "for i in range(self.cars_per_spawn)" from iteration i on;
\* pick[i] is the result of random.choice in iteration i;
\* st = [cars, occ, agents, spawned]
RECURSIVE SpawnLoop(_, _, _, _, _)
SpawnLoop(st, i, pick, tl, t) ==
    IF i >= cars_per_spawn THEN st
    ELSE IF cell_has_car(st.occ, StartingCell(i)) THEN SpawnLoop(st, i + 1, pick, tl, t)
    ELSE LET id == Len(st.cars) + 1
             placed == [st.occ EXCEPT ![StartingCell(i)] = @ \cup {id}]
         IN SpawnLoop([cars |-> Append(st.cars, NewCar(StartingCell(i), pick[i], placed, tl)),
                       occ |-> placed,
                       agents |-> st.agents \cup {id},
                       spawned |-> Append(st.spawned, [tick |-> t, cell |-> StartingCell(i)])],
                      i + 1, pick, tl, t)

\* a mutant of spawn_cars: a spawn cycle in every tick
spawn_cars_EveryTick(st, pick, tl, t) ==
    IF corner_road_cells # <<>> /\ destinations # <<>>
    THEN SpawnLoop(st, 0, pick, tl, t)
    ELSE st

\* the part of CityModel.step after shuffle_do
spawn_cars(st, pick, tl, t) ==
    IF t % spawn_interval = 0 /\ corner_road_cells # <<>> /\ destinations # <<>>
    THEN SpawnLoop(st, 0, pick, tl, t)
    ELSE st

\* the results random.choice can give in the iterations of one spawn cycle
Picks ==
    IF corner_road_cells = <<>> \/ destinations = <<>>
    THEN {[i \in 0..(cars_per_spawn - 1) |-> NoCell]}
    ELSE {pick \in [0..(cars_per_spawn - 1) -> {destinations[k] : k \in 1..Len(destinations)}] :
            \A i \in 0..(cars_per_spawn - 1) : pick[i] \in DestinationChoices(StartingCell(i))}

-----------------------------------------------------------------------------
(* The inputs: maps, symbol dictionaries, cars per spawn cycle *)

MaxSteps == 24

MaxCarsPerSpawn == 2

MaxParked == 2

MaxPeriod == 12

MaxLimit == 6

\* two roads that merge in front of the destination
MapMerge ==
    << <<"#", "D", "#">>,
       <<"#", "^", "<">>,
       <<">", "^", "^">> >>

\* 5x5, every road cell pointing Right, one destination at the end of the bottom row
MapStrip ==
    << <<">", ">", ">", ">", ">">>,
       <<">", ">", ">", ">", ">">>,
       <<">", ">", ">", ">", ">">>,
       <<">", ">", ">", ">", ">">>,
       <<">", ">", ">", ">", "D">> >>

\* a light on the short route to the destination, a longer route around it
MapLight ==
    << <<">", "S", "D", "#">>,
       <<">", ">", "^", "#">> >>

\* two destinations, a light, a block of obstacles
MapCity ==
    << <<"D", "<", "<", "<">>,
       <<"#", "^", "D", ">">>,
       <<">", ">", "s", "^">> >>

\* a block of parallel lanes: many routes of equal length to the destination
MapLanes ==
    << <<">", ">", ">", "v">>,
       <<">", ">", ">", "v">>,
       <<">", ">", ">", "D">> >>

\* the bottom-left entry cell leads nowhere, the bottom-right one to the destination
MapDeadEnd ==
    << <<"v", "#", "D">>,
       <<">", "#", "^">> >>

\* a single entry cell
MapAlley ==
    << <<">", ">", "D">>,
       <<"#", "#", "#">> >>

\* two entry cells feeding one lane that ends at a light before the destination
MapQueue ==
    << <<">", ">", "S", "D">>,
       <<">", "^", "#", "#">> >>

\* a destination near the entry cells and one more than distance_threshold away
MapFar ==
    << <<">", ">", ">", ">", ">", ">", "D">>,
       <<">", ">", "D", "#", "#", "#", "#">> >>

\* no valid entry cell: the only road in a corner points out of the grid
MapClosed ==
    << <<"^", ">", "s", ">", "S", "D">>,
       <<"#", "#", "#", "#", "#", "#">> >>

\* two entry cells side by side, each with a destination that is reached only
\* through the other entry cell
MapCross ==
    << <<">", "v", "D">>,
       <<">", "^", "D">> >>

Maps == {MapMerge, MapStrip, MapLight, MapCity, MapLanes, MapDeadEnd, MapAlley, MapQueue,
         MapFar, MapClosed, MapCross}

\* the maps the router is checked on
RouterMaps == {MapMerge, MapLight, MapCity, MapLanes, MapDeadEnd}

\* the periods mapDictionary.json gives the light symbols
Dictionaries == {[S |-> 10, s |-> 4], [S |-> 3, s |-> 1], [S |-> 12, s |-> 2]}

\* the dictionaries that make a difference on a map: one for a map without lights
DictionariesFor(map) ==
    IF \E r \in 1..Len(map) : \E c \in 1..Len(map[r]) : IsLightSymbol(map[r][c])
    THEN Dictionaries
    ELSE {[S |-> 10, s |-> 4]}

-----------------------------------------------------------------------------
(* The simulation *)

EmptyGrid == [c \in Cells |-> {}]

Init ==
    /\ lines \in Maps
    /\ dataDictionary \in DictionariesFor(lines)
    /\ cars_per_spawn \in 1..MaxCarsPerSpawn
    /\ steps = 0
    /\ lights = InitialLights
    /\ cars = <<>>
    /\ occ = EmptyGrid
    /\ agents = {}
    /\ todo = {}
    /\ pc = "idle"
    /\ tickStart = <<>>
    /\ lightsStart = lights
    /\ spawned = <<>>

\* each car's cell and the next cell of its path, as the tick begins
Snapshot ==
    [i \in 1..Len(cars) |->
        [cell |-> cars[i].cell,
         next |-> get_next_cell_from_path(SyncPathIndex(cars[i])),
         active |-> i \in agents]]

\* CityModel.step is entered: steps is incremented and shuffle_do takes the
\* agents of the model, to step them in a random order
BeginStep ==
    /\ pc = "idle"
    /\ steps < MaxSteps
    /\ steps' = steps + 1
    /\ todo' = {<<"car", i>> : i \in agents} \cup {<<"light", k>> : k \in 1..Len(lights)}
    /\ pc' = "agents"
    /\ tickStart' = Snapshot
    /\ lightsStart' = lights
    /\ UNCHANGED <<lines, dataDictionary, cars_per_spawn, lights, cars, occ, agents,
                   spawned>>

\* shuffle_do steps car i
CarStep(i) ==
    /\ pc = "agents"
    /\ <<"car", i>> \in todo
    /\ LET r == car_step(i, cars, occ, agents, lights, steps)
       IN /\ cars' = r.cars
          /\ occ' = r.occ
          /\ agents' = r.agents
    /\ todo' = todo \ {<<"car", i>>}
    /\ UNCHANGED <<lines, dataDictionary, cars_per_spawn, steps, lights, pc, tickStart,
                   lightsStart, spawned>>

\* shuffle_do steps light k
LightStep(k) ==
    /\ pc = "agents"
    /\ <<"light", k>> \in todo
    /\ lights' = [lights EXCEPT ![k] = light_step(lights[k], steps)]
    /\ todo' = todo \ {<<"light", k>>}
    /\ UNCHANGED <<lines, dataDictionary, cars_per_spawn, steps, cars, occ, agents, pc,
                   tickStart, lightsStart, spawned>>

\* shuffle_do is over: the spawn cycle, and CityModel.step returns
SpawnCars ==
    /\ pc = "agents"
    /\ todo = {}
    /\ \E pick \in Picks :
         LET r == spawn_cars([cars |-> cars, occ |-> occ, agents |-> agents,
                              spawned |-> spawned], pick, lights, steps)
         IN /\ cars' = r.cars
            /\ occ' = r.occ
            /\ agents' = r.agents
            /\ spawned' = r.spawned
    /\ pc' = "idle"
    /\ UNCHANGED <<lines, dataDictionary, cars_per_spawn, steps, lights, todo, tickStart,
                   lightsStart>>

Next ==
    \/ BeginStep
    \/ \E i \in 1..Len(cars) : CarStep(i)
    \/ \E k \in 1..Len(lights) : LightStep(k)
    \/ SpawnCars

Spec == Init /\ [][Next]_vars

-----------------------------------------------------------------------------
(* The router alone: a car plans a path on a grid holding other cars and lights *)

RoadCells == {c \in Cells : get_road_direction(c) # None}

DestinationCells == {c \in Cells : HasDestination(c)}

RECURSIVE SetToSeq(_)
SetToSeq(S) ==
    IF S = {} THEN <<>>
    ELSE LET c == CHOOSE x \in S : TRUE IN <<c>> \o SetToSeq(S \ {c})

\* a car standing in cell p, with no path; on a destination cell it has arrived
ParkedCar(p) ==
    [cell |-> p,
     destination |-> IF HasDestination(p) THEN p ELSE destinations[1],
     reached_destination |-> HasDestination(p),
     last_direction |-> None,
     path |-> <<>>,
     path_index |-> 0]

\* cars[1] is the car that plans, the others stand in the cells of parked
RouterCars(start, goal, parked) ==
    << [cell |-> start, destination |-> goal, reached_destination |-> FALSE,
        last_direction |-> None, path |-> <<>>, path_index |-> 0] >>
    \o [k \in 1..Len(parked) |-> ParkedCar(parked[k])]

\* the subsets of S of at most n elements
RECURSIVE SubsetsUpTo(_, _)
SubsetsUpTo(S, n) ==
    IF n = 0 THEN {{}}
    ELSE LET smaller == SubsetsUpTo(S, n - 1)
         IN smaller \cup {P \cup {x} : P \in smaller, x \in S}

RouterInit ==
    /\ lines \in RouterMaps
    /\ dataDictionary \in DictionariesFor(lines)
    /\ cars_per_spawn = 1
    /\ steps = spawn_interval
    /\ \E states \in [1..Len(InitialLights) -> BOOLEAN] :
         lights = [k \in 1..Len(InitialLights) |->
                     [InitialLights[k] EXCEPT !.state = states[k]]]
    /\ \E start \in RoadCells, goal \in DestinationCells :
       \E P \in SubsetsUpTo((RoadCells \cup DestinationCells) \ {start}, MaxParked) :
         cars = RouterCars(start, goal, SetToSeq(P))
    /\ occ = [c \in Cells |-> {i \in 1..Len(cars) : cars[i].cell = c}]
    /\ agents = {i \in 1..Len(cars) : ~cars[i].reached_destination}
    /\ todo = {}
    /\ pc = "plan"
    /\ tickStart = <<>>
    /\ lightsStart = lights
    /\ spawned = [i \in 1..Len(cars) |-> [tick |-> steps, cell |-> cars[i].cell]]

\* Car.update_path of cars[1]
PlanPath ==
    /\ pc = "plan"
    /\ cars' = [cars EXCEPT ![1] = update_path(cars[1], occ, lights)]
    /\ pc' = "planned"
    /\ UNCHANGED <<lines, dataDictionary, cars_per_spawn, steps, lights, occ, agents,
                   todo, tickStart, lightsStart, spawned>>

RouterNext == PlanPath

SpecRouter == RouterInit /\ [][RouterNext]_vars

-----------------------------------------------------------------------------
(* Car.step of a car that has been moved off its path: the car planned its path *)
(* at origin and advanced on it, then its cell was assigned from outside        *)

DesyncInit ==
    /\ lines \in RouterMaps
    /\ dataDictionary \in DictionariesFor(lines)
    /\ cars_per_spawn = 1
    /\ steps = 1
    /\ \E states \in [1..Len(InitialLights) -> BOOLEAN] :
         lights = [k \in 1..Len(InitialLights) |->
                     [InitialLights[k] EXCEPT !.state = states[k]]]
    /\ \E origin \in RoadCells, goal \in DestinationCells :
       \E path \in {a_star_pathfinding(origin, goal, EmptyGrid, lights)} :
       \E cell \in RoadCells, k \in 0..(Len(path) - 1) :
         /\ path # <<>>
         /\ ~InPath(path, cell)
         /\ cars = << [cell |-> cell, destination |-> goal,
                       reached_destination |-> FALSE,
                       last_direction |-> IF k = 0 THEN None
                                          ELSE MoveDirection(path[k], path[k + 1]),
                       path |-> path, path_index |-> k] >>
         /\ spawned = << [tick |-> 0, cell |-> origin] >>
    /\ occ = [c \in Cells |-> {i \in 1..Len(cars) : cars[i].cell = c}]
    /\ agents = {1}
    /\ todo = {<<"car", 1>>}
    /\ pc = "agents"
    /\ tickStart = <<>>
    /\ lightsStart = lights

DesyncNext == \E i \in 1..Len(cars) : CarStep(i)

SpecDesync == DesyncInit /\ [][DesyncNext]_vars

-----------------------------------------------------------------------------
(* One car alone: the model is constructed on a map without entry cells, so  *)
(* that no spawn cycle creates a car, and a Car is constructed in a road     *)
(* cell before the first tick; every started tick steps all its agents and   *)
(* comes to its end, and the next tick begins, without end. The code reads   *)
(* model.steps only as steps % timeToChange (with steps > 0), as             *)
(* steps % spawn_interval and as steps % 5, so the counter is kept here      *)
(* within one common multiple of these: 1, 2, ..., TickCycle, 1, 2, ...      *)
(* with the same behaviour and finitely many states                          *)

SoloMaps == {MapClosed}

SoloInit ==
    /\ lines \in SoloMaps
    /\ dataDictionary \in DictionariesFor(lines)
    /\ cars_per_spawn = 1
    /\ steps = 0
    /\ lights = InitialLights
    /\ \E start \in RoadCells, goal \in DestinationCells :
         /\ occ = [c \in Cells |-> IF c = start THEN {1} ELSE {}]
         /\ cars = << NewCar(start, goal, occ, lights) >>
         /\ spawned = << [tick |-> 0, cell |-> start] >>
    /\ agents = {1}
    /\ todo = {}
    /\ pc = "idle"
    /\ tickStart = <<>>
    /\ lightsStart = lights

RECURSIVE Gcd(_, _)
Gcd(a, b) == IF b = 0 THEN a ELSE Gcd(b, a % b)

Lcm(a, b) == (a * b) \div Gcd(a, b)

RECURSIVE LcmOf(_)
LcmOf(S) ==
    IF S = {} THEN 1
    ELSE LET n == CHOOSE m \in S : TRUE IN Lcm(n, LcmOf(S \ {n}))

TickCycle ==
    LcmOf({spawn_interval, replan_interval}
            \cup {lights[k].timeToChange : k \in 1..Len(lights)})

SoloBeginStep ==
    /\ pc = "idle"
    /\ steps' = IF steps = TickCycle THEN 1 ELSE steps + 1
    /\ todo' = {<<"car", i>> : i \in agents} \cup {<<"light", k>> : k \in 1..Len(lights)}
    /\ pc' = "agents"
    /\ tickStart' = Snapshot
    /\ lightsStart' = lights
    /\ UNCHANGED <<lines, dataDictionary, cars_per_spawn, lights, cars, occ, agents,
                   spawned>>

SoloNext ==
    \/ SoloBeginStep
    \/ \E i \in 1..Len(cars) : CarStep(i)
    \/ \E k \in 1..Len(lights) : LightStep(k)
    \/ SpawnCars

SpecSolo == SoloInit /\ [][SoloNext]_vars /\ WF_vars(SoloNext)

-----------------------------------------------------------------------------
(* The legal-move graph and the cost of a path, for the properties below *)

\* b is a neighbour get_pathfinding_neighbors gives for a
NeighborCells(a) ==
    {get_pathfinding_neighbors(a)[k][1] : k \in 1..Len(get_pathfinding_neighbors(a))}

IsEdge(a, b) == b \in NeighborCells(a)

IsLegalPath(path) == \A k \in 1..(Len(path) - 1) : IsEdge(path[k], path[k + 1])

RECURSIVE PathCostFrom(_, _, _, _)
PathCostFrom(path, k, o, tl) ==
    IF k > Len(path) THEN 0
    ELSE move_cost(o, tl, path[k]) + PathCostFrom(path, k + 1, o, tl)

\* the sum of the costs of the edges of path (the first cell is entered by no edge)
PathCost(path, o, tl) == PathCostFrom(path, 2, o, tl)

\* more than any path without a repeated cell can cost
Unreachable == (1 + car_penalty + red_light_cap) * width * height + 1

MinOf(S) == CHOOSE m \in S : \A n \in S : m <= n

LeastOrUnreachable(costs) ==
    IF costs = {} THEN Unreachable ELSE Min(MinOf(costs), Unreachable)

\* the least cost of a path from cell to goal that enters no cell of visited, by
\* exhaustive search of the paths without a repeated cell; Unreachable if none
RECURSIVE CheapestFrom(_, _, _, _, _)
CheapestFrom(cell, goal, visited, o, tl) ==
    IF cell = goal THEN 0
    ELSE LeastOrUnreachable(
           {move_cost(o, tl, n) + CheapestFrom(n, goal, visited \cup {n}, o, tl) :
              n \in NeighborCells(cell) \ visited})

\* the least cost of a path from start to goal in the legal-move graph
MinCost(start, goal, o, tl) == CheapestFrom(start, goal, {start}, o, tl)

-----------------------------------------------------------------------------
(* Properties *)

ActiveIn(c) == {i \in occ[c] : ~cars[i].reached_destination}

\* C1: every cell holds at most one car that has not arrived, in every state:
\* no Car.step and no spawn puts a car into a cell that holds another active car.
C1_OneActiveCarPerCell == \A c \in Cells : Cardinality(ActiveIn(c)) <= 1

\* C1, its case: a car has been stepped in this tick and has stayed in its cell
\* while the next cell of its path holds another active car, not yet stepped
C1_Witness ==
    /\ pc = "agents"
    /\ \E i \in agents, j \in agents :
         /\ i # j
         /\ <<"car", i>> \notin todo
         /\ <<"car", j>> \in todo
         /\ cars[i].cell = tickStart[i].cell
         /\ get_next_cell_from_path(cars[i]) = cars[j].cell

\* C2: the path a_star_pathfinding returns is a path of the legal-move graph
\* from the start cell to the goal, and its cost, at the costs of the grid it was
\* computed on, is at most the cost of every path from the start to the goal.
C2_AStarOptimal ==
    (pc = "planned" /\ cars[1].path # <<>>) =>
        /\ cars[1].path[1] = cars[1].cell
        /\ cars[1].path[Len(cars[1].path)] = cars[1].destination
        /\ IsLegalPath(cars[1].path)
        /\ PathCost(cars[1].path, occ, lights)
              <= MinCost(cars[1].cell, cars[1].destination, occ, lights)

\* C2, its case: the returned path has more edges than the shortest route to the
\* goal has, a route the costs of cars and red lights made more expensive
C2_Witness ==
    /\ pc = "planned"
    /\ cars[1].path # <<>>
    /\ Len(cars[1].path) - 1 > MinCost(cars[1].cell, cars[1].destination, EmptyGrid, <<>>)

\* light k has not been stepped yet in the tick under way
LightPending(k) == pc = "agents" /\ <<"light", k>> \in todo

\* the number of ticks up to now in which light k has been stepped while the
\* tick counter was a positive multiple of its period
ToggleTicks(k) ==
    (IF LightPending(k) THEN steps - 1 ELSE steps) \div lights[k].timeToChange

\* C3: a light, green at construction, has changed state once for every tick
\* whose counter is a positive multiple of its period and in no other tick; a
\* step that changes its state is its own step in such a tick, taken once per tick.
C3_LightTiming ==
    /\ [](\A k \in 1..Len(lights) : lights[k].state = (ToggleTicks(k) % 2 = 0))
    /\ [][\A k \in 1..Len(lights) :
            /\ (lights'[k].state # lights[k].state) =>
                  /\ LightPending(k)
                  /\ <<"light", k>> \notin todo'
                  /\ steps > 0
                  /\ steps % lights[k].timeToChange = 0
            /\ (LightPending(k) /\ <<"light", k>> \notin todo'
                  /\ steps % lights[k].timeToChange = 0) =>
                  lights'[k].state # lights[k].state]_vars

\* C3, its case: a light of period p > 1 has been stepped in tick 2p and is green
\* again, having turned red in tick p
C3_Witness ==
    \E k \in 1..Len(lights) :
        /\ lights[k].timeToChange > 1
        /\ steps = 2 * lights[k].timeToChange
        /\ ~LightPending(k)
        /\ lights[k].state = TRUE

Opposite(direction) ==
    CASE direction = "Up" -> "Down"
      [] direction = "Down" -> "Up"
      [] direction = "Left" -> "Right"
      [] direction = "Right" -> "Left"
      [] OTHER -> None

\* going from cell a to the adjacent cell b reverses the road direction of a
Reverses(a, b) == MoveDirection(a, b) = Opposite(get_road_direction(a))

\* C4: no two consecutive cells of a car's path reverse the road direction of
\* the first of them, and no step moves a car against the road direction of the
\* cell it leaves.
C4_NoReverse ==
    /\ [](\A i \in 1..Len(cars) : \A k \in 1..(Len(cars[i].path) - 1) :
            ~Reverses(cars[i].path[k], cars[i].path[k + 1]))
    /\ [][\A i \in 1..Len(cars) :
            cars'[i].cell # cars[i].cell => ~Reverses(cars[i].cell, cars'[i].cell)]_vars

\* C4, its case: a car has just moved sideways, at a right angle to the road
\* direction of the cell it left
C4_Witness ==
    \E i \in 1..Len(cars) :
        /\ i <= Len(tickStart)
        /\ cars[i].cell # tickStart[i].cell
        /\ cars[i].last_direction # get_road_direction(tickStart[i].cell)
        /\ cars[i].last_direction # Opposite(get_road_direction(tickStart[i].cell))

\* car i is stepped by the step under way
Stepped(i) == pc = "agents" /\ <<"car", i>> \in todo /\ <<"car", i>> \notin todo'

\* car i has been stepped in the tick under way, or the tick is over
Processed(i) == pc = "idle" \/ <<"car", i>> \notin todo

\* the next cell of car i's path, the index taken from the car's cell
NextOf(i) == get_next_cell_from_path(SyncPathIndex(cars[i]))

InSomeCell(i) == \E c \in Cells : i \in occ[c]

\* C5 (the claim as stated): a car stepped on its destination cell is marked
\* arrived and leaves the cell's occupancy and the active set without moving;
\* from then on it is in no cell and is never stepped again.
C5_ArrivedCarLeavesGrid ==
    \A i \in 1..Len(cars) :
        cars[i].reached_destination =>
            /\ cars[i].cell = cars[i].destination
            /\ i \notin agents
            /\ <<"car", i>> \notin todo
            /\ ~InSomeCell(i)

\* C6: a car stepped while the next cell of its path is not its destination and
\* hosts a red light stays in its cell and keeps its path; stepped while that
\* cell hosts no red light, or is its destination, and is not blocked, it
\* enters the cell.
C6_RedLightStops ==
    [][\A i \in 1..Len(cars) :
         (Stepped(i) /\ cars[i].cell # cars[i].destination
            /\ cars[i].path # <<>> /\ NextOf(i) # NoCell) =>
              /\ (NextOf(i) # cars[i].destination
                    /\ is_traffic_light_red(lights, NextOf(i))[1]) =>
                    /\ cars'[i].cell = cars[i].cell
                    /\ cars'[i].path = cars[i].path
                    /\ occ' = occ
              /\ ((NextOf(i) = cars[i].destination
                     \/ ~is_traffic_light_red(lights, NextOf(i))[1])
                    /\ ~is_cell_blocked(occ, cars, NextOf(i))) =>
                    /\ cars'[i].cell = NextOf(i)
                    /\ i \in occ'[NextOf(i)]]_vars

\* C6, its case: a car has been stepped in this tick and has stayed where it
\* was, in front of a red light on the next cell of its path, a cell that is
\* not its destination and holds no other car
C6_Witness ==
    \E i \in agents :
        /\ i <= Len(tickStart)
        /\ pc = "agents"
        /\ <<"car", i>> \notin todo
        /\ cars[i].cell = tickStart[i].cell
        /\ NextOf(i) # NoCell
        /\ NextOf(i) # cars[i].destination
        /\ is_traffic_light_red(lights, NextOf(i))[1]
        /\ ~LightPending(CHOOSE k \in LightsAt(lights, NextOf(i)) : TRUE)
        /\ ~is_cell_blocked(occ, cars, NextOf(i))

\* the least cost of a path from cell to goal that passes through the cell via
\* and enters no cell of visited (which holds the cells of the path so far)
RECURSIVE CheapestVia(_, _, _, _, _, _)
CheapestVia(cell, goal, via, visited, o, tl) ==
    IF cell = goal THEN (IF via \in visited THEN 0 ELSE Unreachable)
    ELSE LeastOrUnreachable(
           {move_cost(o, tl, n) + CheapestVia(n, goal, via, visited \cup {n}, o, tl) :
              n \in NeighborCells(cell) \ visited})

\* the least cost of a route from the planning car to its goal through cell L
CostThrough(L) == CheapestVia(cars[1].cell, cars[1].destination, L, {cars[1].cell}, occ, lights)

\* the least cost of a route from the planning car to its goal that avoids cell L
CostAround(L) == CheapestFrom(cars[1].cell, cars[1].destination, {cars[1].cell, L}, occ, lights)

\* light k is red with period 10 on a cell other than the planning car's, a
\* route to the goal leads through its cell and another route avoids it
RedLightOnRoute(k) ==
    /\ lights[k].state = FALSE
    /\ lights[k].timeToChange = 10
    /\ lights[k].cell # cars[1].cell
    /\ CostThrough(lights[k].cell) < Unreachable
    /\ CostAround(lights[k].cell) < Unreachable

\* C7 (the claim as stated): when a route avoiding the red light costs no more
\* than the routes through it, the planned path does not contain the light's cell.
C7_AvoidsRedOnEqualOrLower ==
    pc = "planned" =>
        \A k \in 1..Len(lights) :
            (RedLightOnRoute(k)
               /\ CostAround(lights[k].cell) <= CostThrough(lights[k].cell)) =>
                  ~InPath(cars[1].path, lights[k].cell)

\* C7 (amended): when a route avoiding the red light costs strictly less than
\* every route through it, the planned path does not contain the light's cell.
C7_AvoidsRedOnLower ==
    pc = "planned" =>
        \A k \in 1..Len(lights) :
            (RedLightOnRoute(k)
               /\ CostAround(lights[k].cell) < CostThrough(lights[k].cell)) =>
                  /\ cars[1].path # <<>>
                  /\ ~InPath(cars[1].path, lights[k].cell)

\* C7, its case: the route through the red light has no more edges than the
\* route around it, and the red light's penalty makes it the dearer one
C7_Witness ==
    /\ pc = "planned"
    /\ \E k \in 1..Len(lights) :
         /\ RedLightOnRoute(k)
         /\ CostAround(lights[k].cell) < CostThrough(lights[k].cell)
         /\ CheapestVia(cars[1].cell, cars[1].destination, lights[k].cell,
                        {cars[1].cell}, EmptyGrid, <<>>) <= Len(cars[1].path) - 1
         /\ ~InPath(cars[1].path, lights[k].cell)

Perpendicular(d1, d2) == d1 # None /\ d2 # None /\ d1 # d2 /\ d1 # Opposite(d2)

\* as the tick began, the active cars i and j stood on perpendicular roads with
\* the same next path cell, which held no active car
Converging(i, j) ==
    /\ i # j
    /\ tickStart[i].active /\ tickStart[j].active
    /\ tickStart[i].next # NoCell
    /\ tickStart[i].next = tickStart[j].next
    /\ Perpendicular(get_road_direction(tickStart[i].cell),
                     get_road_direction(tickStart[j].cell))
    /\ \A k \in 1..Len(tickStart) :
         tickStart[k].active => tickStart[k].cell # tickStart[i].next

\* C8: of two cars converging on a free cell from perpendicular roads, in every
\* order of stepping, at most one is in that cell during and after the tick, and
\* then the other is still in the cell it had when the tick began.
C8_OneOfTwoEnters ==
    \A i \in 1..Len(tickStart), j \in 1..Len(tickStart) :
        Converging(i, j) =>
            (cars[i].cell = tickStart[i].next => cars[j].cell = tickStart[j].cell)

\* C8, its case: the tick is over, one of the two converging cars has entered
\* the cell and the other has been stepped and has stayed
C8_Witness ==
    /\ pc = "idle"
    /\ \E i \in 1..Len(tickStart), j \in 1..Len(tickStart) :
         /\ Converging(i, j)
         /\ cars[i].cell = tickStart[i].next
         /\ cars[j].cell = tickStart[j].cell

\* the number of ticks in which car i has been stepped since it was created
TicksStepped(i) ==
    IF Processed(i) THEN steps - spawned[i].tick
    ELSE steps - spawned[i].tick - 1

\* C9: on the 5x5 map of Right roads with the destination at the end of the
\* bottom row, a car created at the near end of that row advances one cell in
\* every tick in which it is stepped, and is on the destination cell after
\* exactly 4 ticks.
C9_StripFourTicks ==
    lines = MapStrip =>
        \A i \in 1..Len(cars) :
            spawned[i].cell = <<0, 0>> =>
                cars[i].cell = <<Min(TicksStepped(i), 4), 0>>

\* C9, its case: four ticks after a car was created at the near end, the tick
\* is over and the car is on the destination cell
C9_Witness ==
    /\ lines = MapStrip
    /\ pc = "idle"
    /\ \E i \in 1..Len(cars) :
         /\ spawned[i].cell = <<0, 0>>
         /\ steps = spawned[i].tick + 4
         /\ cars[i].cell = <<4, 0>>
         /\ cars[i].cell = cars[i].destination

\* cell n hosts a traffic light that is red
RedLightIn(n) == \E k \in 1..Len(lights) : lights[k].cell = n /\ lights[k].state = FALSE

\* the period of the red light of cell n
RedPeriod(n) ==
    lights[CHOOSE k \in 1..Len(lights) : lights[k].cell = n /\ lights[k].state = FALSE].timeToChange

\* C11 (the claim as stated): the cost of the edge into a neighbour is 1, plus 3
\* if and only if the neighbour holds a car that has not arrived, plus the
\* red-light penalty if and only if the neighbour hosts a red light; a green
\* light and an arrived car add nothing.
C11_EdgeCost ==
    \A a \in Cells : \A n \in NeighborCells(a) :
        move_cost(occ, lights, n) =
            1 + (IF ActiveIn(n) # {} THEN car_penalty ELSE 0)
              + (IF RedLightIn(n) THEN red_light_penalty(RedPeriod(n)) ELSE 0)

\* C12 (the claim as stated): for the period p of a light and every period q,
\* the penalty is at most the cap and is strictly greater for the greater period.
C12_PenaltyStrictlyIncreasing ==
    \A k \in 1..Len(lights), q \in 1..MaxPeriod :
        LET p == lights[k].timeToChange
        IN /\ red_light_penalty(p) <= red_light_cap
           /\ red_light_penalty(q) <= red_light_cap
           /\ p < q => red_light_penalty(p) < red_light_penalty(q)
           /\ q < p => red_light_penalty(q) < red_light_penalty(p)

\* C12 (amended): for the period p of a light and every period q, the penalty is
\* at most the cap and is not smaller for the greater period (it is equal for
\* the two periods 2n and 2n + 1, and for all periods from 10 on).
C12_PenaltyNonDecreasing ==
    \A k \in 1..Len(lights), q \in 1..MaxPeriod :
        LET p == lights[k].timeToChange
        IN /\ red_light_penalty(p) <= red_light_cap
           /\ red_light_penalty(q) <= red_light_cap
           /\ p < q => red_light_penalty(p) <= red_light_penalty(q)
           /\ q < p => red_light_penalty(q) <= red_light_penalty(p)

\* C12, its case: the planned path enters the cell of a red light whose period
\* is cut by the cap, and the light adds the cap to the cost of the path
C12_Witness ==
    /\ pc = "planned"
    /\ \E k \in 1..Len(lights) :
         /\ lights[k].state = FALSE
         /\ lights[k].timeToChange \div 2 > red_light_cap
         /\ InPath(cars[1].path, lights[k].cell)
         /\ cars[1].path[1] # lights[k].cell
         /\ PathCost(cars[1].path, occ, lights)
              = PathCost(cars[1].path, occ, <<>>) + red_light_cap

\* C13: every cell of a returned path but the first is in bounds, orthogonally
\* adjacent to its predecessor and free of obstacles, and is the destination
\* cell or a road cell whose direction is not the reverse of the direction of
\* the move that enters it.
C13_PathCellsAdmissible ==
    pc = "planned" =>
        \A k \in 2..Len(cars[1].path) :
            LET prev == cars[1].path[k - 1]
                cell == cars[1].path[k]
            IN /\ InBounds(cell[1], cell[2])
               /\ manhattan_distance(prev, cell) = 1
               /\ ~HasObstacle(cell)
               /\ \/ cell = cars[1].destination
                  \/ /\ get_road_direction(cell) # None
                     /\ get_road_direction(cell) # Opposite(MoveDirection(prev, cell))

\* C13, its case: the returned path has more edges than the straight distance
\* to the goal and turns into a road of another direction than the move that
\* enters it
C13_Witness ==
    /\ pc = "planned"
    /\ Len(cars[1].path) - 1 > manhattan_distance(cars[1].cell, cars[1].destination)
    /\ \E k \in 2..(Len(cars[1].path) - 1) :
         get_road_direction(cars[1].path[k])
            # MoveDirection(cars[1].path[k - 1], cars[1].path[k])

\* the search the planning car runs, with iteration bound limit
SearchWithin(limit) ==
    a_star_search(cars[1].cell, cars[1].destination, occ, lights, limit)

NoRepeat(seq) == \A j, k \in 1..Len(seq) : j # k => seq[j] # seq[k]

\* C14: the search ends after at most max_iterations iterations of its loop and
\* expands no cell twice; with any bound on the iterations, it performs at most
\* that many, and returns the empty path unless the goal is taken from the queue
\* within the bound, in which case it returns the path of the unbounded search.
C14_SearchTerminates ==
    pc = "planned" =>
        /\ cars[1].path = SearchWithin(max_iterations).path
        /\ \A limit \in (0..MaxLimit) \cup {max_iterations} :
             LET r == SearchWithin(limit)
                 full == SearchWithin(max_iterations)
             IN /\ r.iterations <= limit
                /\ NoRepeat(r.expanded)
                /\ Len(r.expanded) <= Cardinality(Cells)
                /\ r.path = IF full.path # <<>> /\ full.iterations <= limit
                            THEN full.path ELSE <<>>
                /\ (r.path = <<>> /\ r.iterations < limit) => r.open_set = {}

\* C14, its case: the goal is reachable, but not within MaxLimit iterations: the
\* search bounded by MaxLimit stops at the bound with cells left in its queue
\* and returns the empty path
C14_Witness ==
    /\ pc = "planned"
    /\ cars[1].path # <<>>
    /\ SearchWithin(MaxLimit).iterations = MaxLimit
    /\ SearchWithin(MaxLimit).open_set # {}
    /\ SearchWithin(MaxLimit).path = <<>>

\* C15: the search returns the empty path if and only if no path of the
\* legal-move graph leads from the car's cell to its destination; a path it
\* returns starts with the car's cell and ends with the destination cell.
C15_EmptyIffUnreachable ==
    pc = "planned" =>
        /\ cars[1].path = <<>>
             <=> MinCost(cars[1].cell, cars[1].destination, occ, lights) = Unreachable
        /\ cars[1].path # <<>> =>
             /\ cars[1].path[1] = cars[1].cell
             /\ cars[1].path[Len(cars[1].path)] = cars[1].destination

\* C15, its case: the car's cell has neighbours to search from, no path leads
\* to the destination, and the search has returned the empty path
C15_Witness ==
    /\ pc = "planned"
    /\ NeighborCells(cars[1].cell) # {}
    /\ MinCost(cars[1].cell, cars[1].destination, occ, lights) = Unreachable
    /\ cars[1].path = <<>>

\* the path a search from car i's cell returns on the grid as it is
Replanned(i) == a_star_pathfinding(cars[i].cell, cars[i].destination, occ, lights)

\* C16: a car stepped while the next cell of its path holds another car that has
\* not arrived, and no obstacle, does not move; it keeps its path when the tick
\* counter is not a multiple of 5, and when it is (and no red light has stopped
\* the car first) its path is the one a new search returns.
C16_BlockedReplanCadence ==
    [][\A i \in 1..Len(cars) :
         (Stepped(i) /\ cars[i].cell # cars[i].destination
            /\ cars[i].path # <<>> /\ NextOf(i) # NoCell
            /\ ~HasObstacle(NextOf(i)) /\ ActiveIn(NextOf(i)) # {}) =>
              /\ cars'[i].cell = cars[i].cell
              /\ occ' = occ
              /\ steps % replan_interval # 0 => cars'[i].path = cars[i].path
              /\ cars'[i].path # cars[i].path => steps % replan_interval = 0
              /\ (steps % replan_interval = 0
                    /\ ~StoppedByRedLight(cars[i], NextOf(i), lights)) =>
                    /\ cars'[i].path = Replanned(i)
                    /\ cars'[i].path_index = 0]_vars

\* C16, its case: in a tick whose counter is a multiple of 5, a car that had left
\* its entry cell has been stepped behind another active car and has stayed,
\* and its path is a new one, which starts at the cell it is in
C16_Witness ==
    /\ pc = "agents"
    /\ steps % replan_interval = 0
    /\ \E i \in agents, j \in agents :
         /\ i # j
         /\ i <= Len(tickStart)
         /\ <<"car", i>> \notin todo
         /\ <<"car", j>> \in todo
         /\ cars[i].cell = tickStart[i].cell
         /\ tickStart[i].next = cars[j].cell
         /\ spawned[i].cell # cars[i].cell
         /\ cars[i].path # <<>>
         /\ cars[i].path[1] = cars[i].cell
         /\ cars[i].path_index = 0

\* C17: a car stepped without a path searches for one; when the search returns
\* the empty path the car stays in its cell, no other car, no cell and no light
\* changes, and the car remains among the agents stepped in the ticks that
\* follow; when the search returns a path the car keeps it.
C17_NoPathIsLocal ==
    /\ [](\A i \in 1..Len(cars) :
            (cars[i].path = <<>> /\ ~cars[i].reached_destination) => i \in agents)
    /\ [][\A i \in 1..Len(cars) :
            (Stepped(i) /\ cars[i].cell # cars[i].destination /\ cars[i].path = <<>>) =>
                /\ Replanned(i) = <<>> =>
                     /\ cars'[i].cell = cars[i].cell
                     /\ cars'[i].path = <<>>
                     /\ \A j \in 1..Len(cars) : j # i => cars'[j] = cars[j]
                     /\ occ' = occ
                     /\ lights' = lights
                     /\ i \in agents'
                /\ Replanned(i) # <<>> => cars'[i].path = Replanned(i)]_vars

\* C17, its case: a car whose searches return the empty path has been stepped
\* again, two ticks or more after it was created, and is where it was, while
\* another car has moved in the same tick
C17_Witness ==
    /\ pc = "agents"
    /\ \E i \in agents, j \in agents :
         /\ i # j
         /\ i <= Len(tickStart) /\ j <= Len(tickStart)
         /\ <<"car", i>> \notin todo
         /\ <<"car", j>> \notin todo
         /\ steps >= spawned[i].tick + 2
         /\ cars[i].path = <<>>
         /\ cars[i].cell = spawned[i].cell
         /\ cars[i].cell # cars[i].destination
         /\ cars[j].cell # tickStart[j].cell

\* C18 (the claim as stated): a car stepped while its path is not empty and
\* does not contain its cell has, after the step, the path a search from its
\* cell returns, and is in its cell or in the next cell of that path.
C18_DesyncReplans ==
    [][\A i \in 1..Len(cars) :
         (Stepped(i) /\ cars[i].cell # cars[i].destination
            /\ cars[i].path # <<>> /\ ~InPath(cars[i].path, cars[i].cell)) =>
              /\ cars'[i].path = Replanned(i)
              /\ \/ cars'[i].cell = cars[i].cell
                 \/ Len(Replanned(i)) >= 2 /\ cars'[i].cell = Replanned(i)[2]]_vars

\* the cars the step under way creates
NewCars == (Len(cars) + 1)..Len(cars')

\* the entry cell of iteration i of a spawn cycle
EntryCell(i) == corner_road_cells[(i % Len(corner_road_cells)) + 1]

\* C19: a step creates cars only when the tick counter is a multiple of
\* spawn_interval and every agent of the tick has been stepped; it creates at
\* most cars_per_spawn cars, and the cars it creates stand, in the order of
\* their creation, in the entry cells of increasing iterations i, the entry cell
\* of iteration i being number i modulo the number of entry cells.
C19_SpawnCadence ==
    [][NewCars # {} =>
         /\ pc = "agents" /\ todo = {}
         /\ steps % spawn_interval = 0
         /\ Cardinality(NewCars) <= cars_per_spawn
         /\ \E iteration \in [NewCars -> 0..(cars_per_spawn - 1)] :
              /\ \A a, b \in NewCars : a < b => iteration[a] < iteration[b]
              /\ \A a \in NewCars : cars'[a].cell = EntryCell(iteration[a])
         /\ \A i \in 1..Len(cars) : cars'[i] = cars[i]]_vars

\* C19, its case: the second spawn cycle is over and has created two cars, the
\* first in entry cell 0 and the second in entry cell 1
C19_Witness ==
    /\ pc = "idle"
    /\ steps = 2 * spawn_interval
    /\ \E a \in 1..(Len(cars) - 1) :
         /\ spawned[a].tick = steps /\ spawned[a + 1].tick = steps
         /\ cars[a].cell = corner_road_cells[1]
         /\ cars[a + 1].cell = corner_road_cells[2]

\* the entry cells of the iterations of a spawn cycle that hold no car as the
\* cycle begins
FreeEntryCells ==
    {EntryCell(i) : i \in {j \in 0..(cars_per_spawn - 1) : occ[EntryCell(j)] = {}}}

\* C20: a spawn cycle creates a car in no cell that holds a car, be it a car
\* that was there before the cycle or one the cycle has created: it creates
\* exactly one car in every entry cell of its iterations that held no car, and
\* the other iterations create nothing.
C20_NoSpawnOnCar ==
    [][(pc = "agents" /\ todo = {} /\ pc' = "idle" /\ steps % spawn_interval = 0
          /\ corner_road_cells # <<>>) =>
         /\ \A a \in NewCars : occ[cars'[a].cell] = {}
         /\ \A a, b \in NewCars : a # b => cars'[a].cell # cars'[b].cell
         /\ {cars'[a].cell : a \in NewCars} = FreeEntryCells
         /\ \A c \in Cells : occ'[c] = occ[c] \cup {a \in NewCars : cars'[a].cell = c}]_vars

\* the cars created in the tick under way
CreatedNow == {a \in 1..Len(cars) : spawned[a].tick = steps}

\* C20, its case: a spawn cycle is over in which an iteration found an older car
\* in its entry cell and was skipped, while another iteration created a car:
\* fewer cars than cars_per_spawn were created
C20_Witness ==
    /\ pc = "idle"
    /\ steps > 0 /\ steps % spawn_interval = 0
    /\ CreatedNow # {}
    /\ Cardinality(CreatedNow) < cars_per_spawn
    /\ \E i \in 0..(cars_per_spawn - 1) : \E a \in occ[EntryCell(i)] :
         spawned[a].tick < steps

\* the destination cells farther than distance_threshold from cell
FarDestinations(cell) ==
    {d \in DestinationCells : manhattan_distance(d, cell) > distance_threshold}

\* C21: the destination of a car a spawn cycle creates is a destination cell of
\* the map, farther than 5 from the car's entry cell whenever the map has a
\* destination that far from it.
C21_FarDestinationPreferred ==
    [][\A a \in NewCars :
         /\ cars'[a].destination \in DestinationCells
         /\ FarDestinations(cars'[a].cell) # {} =>
              cars'[a].destination \in FarDestinations(cars'[a].cell)]_vars

\* C21, its case: of a destination within 5 of the entry cell and one farther
\* away, a car standing in its entry cell has been given the farther one
C21_Witness ==
    \E a \in 1..Len(cars) :
        /\ spawned[a].cell = cars[a].cell
        /\ FarDestinations(cars[a].cell) # {}
        /\ DestinationCells \ FarDestinations(cars[a].cell) # {}
        /\ manhattan_distance(cars[a].destination, cars[a].cell) > distance_threshold

\* a corner cell that carries a road whose forward neighbour is in bounds
EntryCorners ==
    {c \in {<<0, 0>>, <<width - 1, 0>>, <<0, height - 1>>, <<width - 1, height - 1>>} :
        /\ get_road_direction(c) # None
        /\ LET n == <<c[1] + Delta(get_road_direction(c))[1],
                      c[2] + Delta(get_road_direction(c))[2]>>
           IN InBounds(n[1], n[2])}

\* C22: on a map without a valid corner entry cell the model is constructed with
\* an empty list of entry cells, a tick can begin whenever the last one is over,
\* and no car exists in any state.
C22_NoEntryNoCars ==
    EntryCorners = {} =>
        /\ corner_road_cells = <<>>
        /\ cars = <<>>
        /\ agents = {}
        /\ \A c \in Cells : occ[c] = {}
        /\ (pc = "idle" /\ steps < MaxSteps) => ENABLED BeginStep

\* C22, its case: on a map whose only corner road points out of the grid, the
\* second tick with a spawn cycle is over and there is no car
C22_Witness ==
    /\ EntryCorners = {}
    /\ \E c \in Cells : get_road_direction(c) # None /\ c \in {corners[k] : k \in 1..4}
    /\ destinations # <<>>
    /\ steps = 2 * spawn_interval
    /\ pc = "idle"
    /\ cars = <<>>

\* car i is stepped with a path whose next cell is not barred by an obstacle or
\* by a red light
FreeToEnter(i) ==
    /\ Stepped(i)
    /\ cars[i].cell # cars[i].destination
    /\ cars[i].path # <<>>
    /\ NextOf(i) # NoCell
    /\ ~HasObstacle(NextOf(i))
    /\ ~StoppedByRedLight(cars[i], NextOf(i), lights)

\* C23: a car stepped while the next cell of its path holds cars that have all
\* arrived, and no obstacle or red light stops it, moves into that cell beside
\* them.
C23_ArrivedCarDoesNotBlock ==
    [][\A i \in 1..Len(cars) :
         (FreeToEnter(i) /\ occ[NextOf(i)] # {}
            /\ \A a \in occ[NextOf(i)] : cars[a].reached_destination) =>
              /\ cars'[i].cell = NextOf(i)
              /\ occ'[NextOf(i)] = occ[NextOf(i)] \cup {i}]_vars

\* C23, its case: a car has moved in this tick into the cell where a car that
\* has arrived still is
C23_Witness ==
    \E i \in agents, a \in 1..Len(cars) :
        /\ a # i
        /\ i <= Len(tickStart)
        /\ cars[a].reached_destination
        /\ {a, i} \subseteq occ[cars[i].cell]
        /\ cars[i].cell # tickStart[i].cell

\* as the tick began, each of the active cars i and j had the other's cell as
\* the next cell of its path
FacingEachOther(i, j) ==
    /\ i # j
    /\ tickStart[i].active /\ tickStart[j].active
    /\ tickStart[i].next = tickStart[j].cell
    /\ tickStart[j].next = tickStart[i].cell

\* C24: two cars that face each other as a tick begins are, in every state of
\* the tick and when it is over, in the cells they had when it began, whatever
\* the order in which they are stepped.
C24_NoSwap ==
    \A i \in 1..Len(tickStart), j \in 1..Len(tickStart) :
        FacingEachOther(i, j) =>
            /\ cars[i].cell = tickStart[i].cell
            /\ cars[j].cell = tickStart[j].cell

\* C24, its case: a tick is over in which two cars facing each other have both
\* been stepped
C24_Witness ==
    /\ pc = "idle"
    /\ \E i \in 1..Len(tickStart), j \in 1..Len(tickStart) : FacingEachOther(i, j)

\* C25: a car is stepped whose next cell held an active car j as the tick
\* began. If j is still there and has not arrived, the car stays; if j has been
\* stepped before and has left, and nothing else bars the cell, the car enters it.
C25_MovesVisibleInTick ==
    [][\A i \in 1..Len(tickStart), j \in 1..Len(tickStart) :
         (Stepped(i) /\ cars[i].cell # cars[i].destination /\ cars[i].path # <<>>
            /\ i # j /\ tickStart[j].active /\ NextOf(i) = tickStart[j].cell) =>
              /\ j \in ActiveIn(NextOf(i)) => cars'[i].cell = cars[i].cell
              /\ (cars[j].cell # tickStart[j].cell /\ ActiveIn(NextOf(i)) = {}
                    /\ FreeToEnter(i)) =>
                    /\ cars'[i].cell = NextOf(i)
                    /\ i \in occ'[NextOf(i)]]_vars

\* C25, its case: in one tick a car has left its cell and the car behind it,
\* stepped later, has entered that cell
C25_Witness ==
    \E i \in 1..Len(tickStart), j \in 1..Len(tickStart) :
        /\ i # j
        /\ tickStart[i].active /\ tickStart[j].active
        /\ tickStart[i].next = tickStart[j].cell
        /\ cars[j].cell # tickStart[j].cell
        /\ cars[i].cell = tickStart[j].cell

\* the cells whose agent list holds car i
CellsHolding(i) == {c \in Cells : i \in occ[c]}

\* C26 (the claim as stated): every car that has not been removed is in the
\* agent list of exactly one cell, the cell it records as its own, and a car
\* that has been removed is in the list of no cell.
C26_OccupancyMatchesCars ==
    \A i \in 1..Len(cars) :
        /\ i \in agents => CellsHolding(i) = {cars[i].cell}
        /\ i \notin agents => CellsHolding(i) = {}

\* C27: in every state of a tick, a light that has been stepped in the tick is
\* what Traffic_Light.step makes of the light as it was when the tick began, and
\* a light not yet stepped is as it was: when the tick is over the lights are
\* the same for every order in which lights and cars were stepped.
C27_LightsOrderInsensitive ==
    /\ Len(lights) = Len(lightsStart)
    /\ \A k \in 1..Len(lights) :
         lights[k] = IF LightPending(k) THEN lightsStart[k]
                     ELSE light_step(lightsStart[k], steps)

\* C27, its case: a tick is over in which two lights of different periods have
\* both toggled
C27_Witness ==
    /\ pc = "idle"
    /\ \E k \in 1..Len(lights), m \in 1..Len(lights) :
         /\ lights[k].timeToChange # lights[m].timeToChange
         /\ lights[k].state # lightsStart[k].state
         /\ lights[m].state # lightsStart[m].state

\* C28: in every state, so after construction and after every Car.step, a car
\* with a path is in the cell path[path_index], the last cell of the path is its
\* destination and no cell is twice on the path; no step changes a car's
\* destination.
C28_PathMatchesCar ==
    /\ [](\A i \in 1..Len(cars) :
            cars[i].path # <<>> =>
                /\ cars[i].path_index < Len(cars[i].path)
                /\ cars[i].path[cars[i].path_index + 1] = cars[i].cell
                /\ cars[i].path[Len(cars[i].path)] = cars[i].destination
                /\ NoRepeat(cars[i].path))
    /\ [][\A i \in 1..Len(cars) : cars'[i].destination = cars[i].destination]_vars

\* C28, its case: a car has moved in this tick, for the second time or more,
\* and path[path_index] is the cell it has entered
C28_Witness ==
    \E i \in agents :
        /\ i <= Len(tickStart)
        /\ cars[i].cell # tickStart[i].cell
        /\ cars[i].path_index >= 2
        /\ cars[i].path[cars[i].path_index + 1] = cars[i].cell

\* C29: from the beginning of a tick to every state of it, and from one state
\* to the next, a car stays in its cell or is in a cell orthogonally adjacent
\* to it, and only the car that is stepped changes its cell; in every state
\* each active car is on a cell without an obstacle that carries a road or is
\* the car's destination.
C29_OneCellPerTick ==
    /\ [](\A i \in agents :
            /\ ~HasObstacle(cars[i].cell)
            /\ \/ get_road_direction(cars[i].cell) # None
               \/ cars[i].cell = cars[i].destination)
    /\ [](\A i \in 1..Len(tickStart) :
            manhattan_distance(cars[i].cell, tickStart[i].cell) <= 1)
    /\ [][\A i \in 1..Len(cars) :
            /\ manhattan_distance(cars'[i].cell, cars[i].cell) <= 1
            /\ cars'[i].cell # cars[i].cell => Stepped(i)]_vars

\* C29, its case: a car has moved in this tick to the next cell of its path, a
\* cell adjacent to the one it had, and has more of the path ahead
C29_Witness ==
    \E i \in agents :
        /\ i <= Len(tickStart)
        /\ cars[i].path_index + 1 < Len(cars[i].path)
        /\ manhattan_distance(cars[i].cell, tickStart[i].cell) = 1
        /\ cars[i].cell = tickStart[i].next

\* the lights on the cells of car i's path that the car has yet to enter
LightsAhead(i) ==
    {k \in 1..Len(lights) :
        /\ InPath(cars[i].path, lights[k].cell)
        /\ PathIndex(cars[i].path, lights[k].cell) > cars[i].path_index}

Arrived(i) == cars[i].reached_destination /\ i \notin agents

\* C30 (the claim as stated): a car alone in the simulation with a path to its
\* destination is eventually on the destination cell, marked arrived and
\* removed from the agents, whatever the periods of the lights on its path and
\* the orders of stepping.
C30_SoloCarArrives ==
    (Len(cars) = 1 /\ cars[1].path # <<>>) ~> Arrived(1)

\* C30 (amended): a car alone in the simulation with a path to its destination
\* on which every light ahead has a period of 2 or more is eventually on the
\* destination cell, marked arrived and removed from the agents, whatever the
\* orders of stepping.
C30_SoloCarArrivesPastSlowLights ==
    (Len(cars) = 1 /\ cars[1].path # <<>>
       /\ \A k \in LightsAhead(1) : lights[k].timeToChange >= 2) ~> Arrived(1)

\* C30, its case: the car, alone, arrives in this tick, later than it would
\* without a stop: it has waited in front of a red light
C30_Witness ==
    /\ Len(cars) = 1
    /\ Len(tickStart) = 1
    /\ tickStart[1].active
    /\ Arrived(1)
    /\ spawned[1].tick = 0
    /\ \E k \in 1..Len(lights) :
         /\ InPath(cars[1].path, lights[k].cell)
         /\ lights[k].cell # cars[1].path[1]
         /\ lights[k].timeToChange >= 2
    /\ steps > Len(cars[1].path)

=============================================================================
